---- MODULE Spec2Model ----
(***************************************************************************)
(* Audio2FaceSDK (src/audio2face-sdk-node.mjs, src/audio2face-sdk-browser.js) *)
(* as a state machine: the sample buffer, the held last frame, the attached *)
(* inference session and the asynchronous calls suspended in an await.      *)
(***************************************************************************)
EXTENDS Integers, Sequences, FiniteSets, TLC

VARIABLES
    session,          \* this.session: Null or the attached inference session
    audioBuffer,      \* this.audioBuffer: the rolling sample buffer
    lastResult,       \* this.lastResult: Null or the held last frame
    smoothingFactor,  \* this.smoothingFactor
    pending,          \* the asynchronous calls suspended in an await
    done,             \* history: the two operations completed last, oldest first
    lastRun,          \* history: the latest session.run invocation
    released,         \* history: ids of the sessions release() was called on
    env,              \* the caller's side: ids, the clock, the stream position, the
                      \* windows consumed since the buffer was last reset
    unit              \* the pure functions applied to drawn inputs (SpecUnit)

vars == <<session, audioBuffer, lastResult, smoothingFactor,
          pending, done, lastRun, released, env, unit>>

(***************************************************************************)
(* Bounds of the model.                                                    *)
(***************************************************************************)
\* operations the caller starts in one behaviour
MaxCalls == 3
\* frames per aggregation and blendshapes per frame of the drawn unit inputs
MaxUnitFrames == 2
MaxUnitCard == 2
\* samples per sequence handed to resampleAudio
MaxUnitSamples == 3

(***************************************************************************)
(* Numbers.  A JavaScript number is an exact rational n/d, NaN, or the      *)
(* value undefined that an out-of-range typed-array read yields.            *)
(***************************************************************************)
Null == [k |-> "null"]
NaN == [k |-> "nan", n |-> 0, d |-> 1]
Undefined == [k |-> "undef", n |-> 0, d |-> 1]

Abs(x) == IF x < 0 THEN -x ELSE x

RECURSIVE Gcd(_, _)
Gcd(a, b) == IF b = 0 THEN a ELSE Gcd(b, a % b)

Num(n, d) ==
    LET g == Gcd(Abs(n), Abs(d))
        s == IF d < 0 THEN -1 ELSE 1
    IN [k |-> "num", n |-> (s * n) \div g, d |-> (s * d) \div g]

Int2Num(n) == [k |-> "num", n |-> n, d |-> 1]
Zero == Int2Num(0)
One == Int2Num(1)
IsNum(x) == x.k = "num"

\* a + b, a * b, a / b, a - b of JavaScript: NaN as soon as an operand is NaN or undefined
Add(a, b) ==
    IF IsNum(a) /\ IsNum(b)
    THEN LET l == (a.d \div Gcd(a.d, b.d)) * b.d
         IN Num(a.n * (l \div a.d) + b.n * (l \div b.d), l)
    ELSE NaN
Mul(a, b) == IF IsNum(a) /\ IsNum(b) THEN Num(a.n * b.n, a.d * b.d) ELSE NaN
Sub(a, b) == Add(a, Mul(Int2Num(-1), b))
Div(a, b) == IF IsNum(a) /\ IsNum(b) /\ b.n # 0 THEN Num(a.n * b.d, a.d * b.n) ELSE NaN
Less(a, b) == a.n * b.d < b.n * a.d

\* Math.min(a, b) and Math.max(a, b): NaN if either argument is not a number
MathMin(a, b) == IF IsNum(a) /\ IsNum(b) THEN (IF Less(b, a) THEN b ELSE a) ELSE NaN
MathMax(a, b) == IF IsNum(a) /\ IsNum(b) THEN (IF Less(a, b) THEN b ELSE a) ELSE NaN

\* x || 0: undefined, NaN and 0 are falsy
OrZero(x) == IF IsNum(x) /\ x.n # 0 THEN x ELSE Zero

\* a typed-array read data[i], i counted from 0
Read(data, i) == IF i >= 0 /\ i < Len(data) THEN data[i + 1] ELSE Undefined

(***************************************************************************)
(* Sample sequences.  Every sample is identified by its position in the     *)
(* signal it comes from, and a Float32Array of samples is written as the    *)
(* list of its maximal runs of consecutive positions: <<[from, len], ...>>  *)
(* stands for from, from+1, ..., from+len-1, ...  The operators below are   *)
(* length, element read, concatenation (newBuffer.set) and slice on that    *)
(* representation.                                                          *)
(***************************************************************************)
Samples(from, n) == IF n <= 0 THEN <<>> ELSE <<[from |-> from, len |-> n]>>

RECURSIVE Length(_)
Length(a) == IF a = <<>> THEN 0 ELSE a[1].len + Length(Tail(a))

\* a[i], i counted from 0 and in range
RECURSIVE At(_, _)
At(a, i) == IF i < a[1].len THEN a[1].from + i ELSE At(Tail(a), i - a[1].len)

Concat(a, b) ==
    IF a = <<>> THEN b
    ELSE IF b = <<>> THEN a
    ELSE LET la == a[Len(a)]
         IN IF la.from + la.len = b[1].from
            THEN SubSeq(a, 1, Len(a) - 1)
                 \o <<[from |-> la.from, len |-> la.len + b[1].len]>> \o Tail(b)
            ELSE a \o b

\* the first n samples of a, and a without its first n samples (0 <= n)
RECURSIVE Take(_, _)
Take(a, n) ==
    IF n <= 0 \/ a = <<>> THEN <<>>
    ELSE IF a[1].len <= n THEN <<a[1]>> \o Take(Tail(a), n - a[1].len)
    ELSE <<[from |-> a[1].from, len |-> n]>>

RECURSIVE Drop(_, _)
Drop(a, n) ==
    IF a = <<>> THEN <<>>
    ELSE IF n <= 0 THEN a
    ELSE IF a[1].len <= n THEN Drop(Tail(a), n - a[1].len)
    ELSE <<[from |-> a[1].from + n, len |-> a[1].len - n]>> \o Tail(a)

\* TypedArray.prototype.slice(begin, end), 0 <= begin: the indices are clamped
\* to the length
Slice(a, begin, end) == IF end <= begin THEN <<>> ELSE Take(Drop(a, begin), end - begin)

In01(x) == IsNum(x) /\ ~Less(x, Zero) /\ ~Less(One, x)

(***************************************************************************)
(* The constants of the constructor.                                       *)
(***************************************************************************)
sampleRate == 16000
bufferLen == 8320
bufferOfs == 4160
skinOffset == 0
skinSize == 140
jawOffset == 150
jawSize == 15
eyesOffset == 165
eyesSize == 4
emotionSize == 26
defaultSmoothingFactor == Num(3, 10)

generateBlendshapeNames ==
    << "browInnerUp", "browDownLeft", "browDownRight", "browOuterUpLeft",
       "browOuterUpRight", "eyeLookUpLeft", "eyeLookUpRight", "eyeLookDownLeft",
       "eyeLookDownRight", "eyeLookInLeft", "eyeLookInRight", "eyeLookOutLeft",
       "eyeLookOutRight", "eyeBlinkLeft", "eyeBlinkRight", "eyeSquintLeft",
       "eyeSquintRight", "eyeWideLeft", "eyeWideRight", "cheekPuff",
       "cheekSquintLeft", "cheekSquintRight", "noseSneerLeft", "noseSneerRight",
       "jawOpen", "jawForward", "jawLeft", "jawRight",
       "mouthFunnel", "mouthPucker", "mouthLeft", "mouthRight",
       "mouthRollUpper", "mouthRollLower", "mouthShrugUpper", "mouthShrugLower",
       "mouthOpen", "mouthClose", "mouthSmileLeft", "mouthSmileRight",
       "mouthFrownLeft", "mouthFrownRight", "mouthDimpleLeft", "mouthDimpleRight",
       "mouthUpperUpLeft", "mouthUpperUpRight", "mouthLowerDownLeft", "mouthLowerDownRight",
       "mouthPressLeft", "mouthPressRight", "mouthStretchLeft", "mouthStretchRight" >>

blendshapeNames == generateBlendshapeNames

Min(a, b) == IF a < b THEN a ELSE b

(***************************************************************************)
(* sigmoid(x) = 1 / (1 + Math.exp(-x)) in IEEE double arithmetic.  It is    *)
(* exact at 0 and where Math.exp saturates: exp(-x) is Infinity for         *)
(* x <= -710 (the quotient is 0) and below 2^-53 for x >= 37 (the sum is 1).*)
(* At +-1 it is given to four decimals.  The model draws no other argument, *)
(* and TLC stops with an error should one appear.                           *)
(***************************************************************************)
Half == Num(1, 2)
Tenth == Num(1, 10)
SigmoidOfOne == Num(7311, 10000)
SigmoidOfMinusOne == Num(2689, 10000)

sigmoid(x) ==
    CASE ~IsNum(x) -> NaN
      [] IsNum(x) /\ x.n = 0 -> Half
      [] IsNum(x) /\ ~Less(x, Int2Num(37)) -> One
      [] IsNum(x) /\ ~Less(Int2Num(-710), x) -> Zero
      [] IsNum(x) /\ x = One -> SigmoidOfOne
      [] IsNum(x) /\ x = Int2Num(-1) -> SigmoidOfMinusOne

\* Math.max(0, Math.min(1, v))
clamp01(v) == MathMax(Zero, MathMin(One, v))

(***************************************************************************)
(* parseOutputs(outputs): data is the flat data of the first advertised    *)
(* output tensor; now is the value Date.now() returns.                      *)
(***************************************************************************)
\* (variant: names are paired only with the values the output has)
parseBlendshapesAvailable(data) ==
    LET numBs == Min(Min(Len(blendshapeNames), skinSize), Len(data) - skinOffset)
    IN [j \in 1..numBs |->
          LET raw == Read(data, skinOffset + (j - 1))
          IN [name |-> blendshapeNames[j],
              value |-> clamp01(sigmoid(Mul(raw, Tenth)))]]
parseBlendshapes(data) ==
    LET numBs == Min(Len(blendshapeNames), skinSize)
    IN [j \in 1..numBs |->
          LET raw == Read(data, skinOffset + (j - 1))
          IN [name |-> blendshapeNames[j],
              value |-> clamp01(sigmoid(Mul(raw, Tenth)))]]

parseJaw(data) ==
    LET jawValues == [j \in 1..jawSize |-> OrZero(Read(data, jawOffset + (j - 1)))]
    IN clamp01(sigmoid(Mul(jawValues[1], Tenth)))

parseEyes(data) ==
    LET eo == eyesOffset
    IN [leftX |-> OrZero(Read(data, eo)),
        leftY |-> OrZero(Read(data, eo + 1)),
        rightX |-> OrZero(Read(data, eo + 2)),
        rightY |-> OrZero(Read(data, eo + 3))]

parseOutputs(data, now) ==
    [blendshapes |-> parseBlendshapes(data),
     jaw |-> parseJaw(data),
     eyes |-> parseEyes(data),
     timestamp |-> now]

(***************************************************************************)
(* smoothBlendshapes(prev, curr), with the smoothing factor as a parameter. *)
(* An argument is Null or an array, written Array(items); so is the result. *)
(***************************************************************************)
Array(items) == [k |-> "array", items |-> items]

\* (variant: the weights of the two frames are exchanged)
smoothBlendshapesSwapped(prev, curr, factor) ==
    IF prev = Null \/ curr = Null \/ Len(prev.items) # Len(curr.items)
    THEN curr
    ELSE LET rest == Sub(One, factor)
         IN Array([j \in 1..Len(curr.items) |->
                     [name |-> curr.items[j].name,
                      value |-> Add(Mul(prev.items[j].value, rest),
                                    Mul(curr.items[j].value, factor))]])
smoothBlendshapes(prev, curr, factor) ==
    IF prev = Null \/ curr = Null \/ Len(prev.items) # Len(curr.items)
    THEN curr
    ELSE LET rest == Sub(One, factor)
         IN Array([j \in 1..Len(curr.items) |->
                     [name |-> curr.items[j].name,
                      value |-> Add(Mul(prev.items[j].value, factor),
                                    Mul(curr.items[j].value, rest))]])

(***************************************************************************)
(* getEmptyResult()                                                        *)
(***************************************************************************)
getEmptyResult(now) ==
    [blendshapes |-> [j \in 1..Len(blendshapeNames) |->
                        [name |-> blendshapeNames[j], value |-> Zero]],
     jaw |-> Zero,
     eyes |-> Null,
     timestamp |-> now]

(***************************************************************************)
(* aggregateResults(results).  Reading .value or .name of a blendshape      *)
(* entry that a frame does not have throws a TypeError.                     *)
(***************************************************************************)
RECURSIVE SumSeq(_)
SumSeq(s) == IF s = <<>> THEN Zero ELSE Add(SumSeq(SubSeq(s, 1, Len(s) - 1)), s[Len(s)])

Thrown(error) == [ok |-> FALSE, error |-> error]
Returned(value) == [ok |-> TRUE, value |-> value]

aggregateThrows(results) ==
    \E j \in 1..Len(results[1].blendshapes) :
        \E r \in 1..Len(results) : j > Len(results[r].blendshapes)

\* (variant: the eyes are taken from the first frame)
aggregateResultsFirstEyes(results, now) ==
    IF Len(results) = 0 THEN Returned(getEmptyResult(now))
    ELSE IF aggregateThrows(results) THEN Thrown("TypeError")
    ELSE LET numBs == Len(results[1].blendshapes)
         IN Returned(
              [blendshapes |-> [j \in 1..numBs |->
                    [name |-> results[1].blendshapes[j].name,
                     value |-> Div(SumSeq([r \in 1..Len(results) |-> results[r].blendshapes[j].value]),
                                   Int2Num(Len(results)))]],
               jaw |-> Div(SumSeq([r \in 1..Len(results) |-> results[r].jaw]), Int2Num(Len(results))),
               eyes |-> results[1].eyes,
               frameCount |-> Len(results)])
aggregateResults(results, now) ==
    IF Len(results) = 0 THEN Returned(getEmptyResult(now))
    ELSE IF aggregateThrows(results) THEN Thrown("TypeError")
    ELSE LET numBs == Len(results[1].blendshapes)
         IN Returned(
              [blendshapes |-> [j \in 1..numBs |->
                    [name |-> results[1].blendshapes[j].name,
                     value |-> Div(SumSeq([r \in 1..Len(results) |-> results[r].blendshapes[j].value]),
                                   Int2Num(Len(results)))]],
               jaw |-> Div(SumSeq([r \in 1..Len(results) |-> results[r].jaw]), Int2Num(Len(results))),
               eyes |-> results[Len(results)].eyes,
               frameCount |-> Len(results)])


(***************************************************************************)
(* resampleAudio(audioData, fromRate, toRate).  A sample is a number or an  *)
(* infinity; x * y and x + y follow IEEE 754: infinity * 0 and              *)
(* infinity - infinity are NaN.  The drawn rates have ratios 1, 2 and 1/2,   *)
(* for which the double arithmetic of ratio, newLength, pos and frac is      *)
(* exact, and the drawn samples make every result a float32.                *)
(***************************************************************************)
Infinity == [k |-> "inf", n |-> 1, d |-> 1]
IsInf(x) == x.k = "inf"

MulF(a, b) ==
    IF IsNum(a) /\ IsNum(b) THEN Mul(a, b)
    ELSE IF IsInf(a) /\ IsNum(b) THEN (IF b.n = 0 THEN NaN ELSE [a EXCEPT !.n = IF b.n < 0 THEN -a.n ELSE a.n])
    ELSE IF IsNum(a) /\ IsInf(b) THEN (IF a.n = 0 THEN NaN ELSE [b EXCEPT !.n = IF a.n < 0 THEN -b.n ELSE b.n])
    ELSE IF IsInf(a) /\ IsInf(b) THEN [a EXCEPT !.n = a.n * b.n]
    ELSE NaN

AddF(a, b) ==
    IF IsNum(a) /\ IsNum(b) THEN Add(a, b)
    ELSE IF IsInf(a) /\ IsNum(b) THEN a
    ELSE IF IsNum(a) /\ IsInf(b) THEN b
    ELSE IF IsInf(a) /\ IsInf(b) THEN (IF a.n = b.n THEN a ELSE NaN)
    ELSE NaN

\* Math.floor of a rational
Floor(x) == IF x.n >= 0 THEN x.n \div x.d ELSE -((-x.n + x.d - 1) \div x.d)

\* (variant: the weights of the two neighbours are exchanged)
resampleAudioSwapped(audioData, fromRate, toRate) ==
    LET ratio == Num(toRate, fromRate)
        length == Len(audioData)
        newLength == Floor(Mul(Int2Num(length), ratio))
    IN [j \in 1..newLength |->
          LET pos == Div(Int2Num(j - 1), ratio)
              index == Floor(pos)
              frac == Sub(pos, Int2Num(index))
          IN IF index >= length - 1
             THEN audioData[length]
             ELSE AddF(MulF(audioData[index + 1], frac),
                       MulF(audioData[index + 2], Sub(One, frac)))]
resampleAudio(audioData, fromRate, toRate) ==
    LET ratio == Num(toRate, fromRate)
        length == Len(audioData)
        newLength == Floor(Mul(Int2Num(length), ratio))
    IN [j \in 1..newLength |->
          LET pos == Div(Int2Num(j - 1), ratio)
              index == Floor(pos)
              frac == Sub(pos, Int2Num(index))
          IN IF index >= length - 1
             THEN audioData[length]
             ELSE AddF(MulF(audioData[index + 1], Sub(One, frac)),
                       MulF(audioData[index + 2], frac))]

(***************************************************************************)
(* The inputs the model draws.                                             *)
(***************************************************************************)
\* a raw model output of the given length whose odd positions hold a and even ones b
RawOf(len, a, b) == [j \in 1..len |-> IF j % 2 = 1 THEN a ELSE b]

RawLayoutLen == eyesOffset + eyesSize

RawOutputs ==
    { RawOf(RawLayoutLen, Int2Num(0), Int2Num(0)),
      RawOf(RawLayoutLen, Int2Num(8000), Int2Num(-8000)),
      RawOf(skinSize \div 5, Int2Num(10), Int2Num(8000)) }

SessionConfigs ==
    { [inputNames |-> <<"audio", "emotion">>, outputNames |-> <<"output", "aux">>] }

ModelFileKinds == {"ArrayBuffer", "Buffer", "string", "Blob", "other"}
AudioKinds == {"Buffer", "ArrayBuffer", "Float32Array"}
ChunkSizes == {1, bufferOfs, bufferLen, 2 * bufferLen}
FileSizes == {bufferOfs, bufferLen, bufferLen + bufferOfs, bufferLen + bufferOfs + 1}
\* the argument of processAudioFile: n samples held in one of the accepted
\* containers, or a value of another type
AudioInputs ==
    {[kind |-> "other", n |-> 0]} \cup {[kind |-> k, n |-> n] : k \in AudioKinds, n \in FileSizes}
\* the numbers handed to setSmoothing: below, inside and above [0, 1], and NaN
FactorArgs == {Num(-1, 2), Num(1, 2), Int2Num(2), NaN}

(***************************************************************************)
(* runInference(audioChunk), up to its await: the feeds handed to           *)
(* session.run.  The object feeds is a function from input names to tensors.*)
(***************************************************************************)
Tensor(data, dims) == [data |-> data, dims |-> dims]

Includes(names, x) == \E j \in 1..Len(names) : names[j] = x

audioFeedName(inputNames) ==
    IF Includes(inputNames, "audio") THEN "audio"
    ELSE IF Includes(inputNames, "input") THEN "input"
    ELSE IF Len(inputNames) > 0 THEN inputNames[1] ELSE "undefined"

runInferenceFeeds(inputNames, audioChunk) ==
    LET inputTensor == Tensor(audioChunk, <<1, 1, Length(audioChunk)>>)
        key == audioFeedName(inputNames)
        emotionData == [j \in 1..emotionSize |-> 0]
    IN IF Includes(inputNames, "emotion")
       THEN [nm \in {key, "emotion"} |->
               IF nm = "emotion" THEN Tensor(emotionData, <<1, 1, emotionSize>>)
               ELSE inputTensor]
       ELSE [nm \in {key} |-> inputTensor]

\* outputs[this.session.outputNames[0]].data at the time the await resumes:
\* the outputs are keyed by the output names of the session that ran
\* (variant: the output names are those of the session that ran, attached or not)
outputsReadableOfRan(ran) ==
    /\ Len(ran.outputNames) > 0
    /\ Includes(ran.outputNames, ran.outputNames[1])
outputsReadable(ran) ==
    /\ session # Null
    /\ Len(session.outputNames) > 0
    /\ Includes(ran.outputNames, session.outputNames[1])

(***************************************************************************)
(* The initial state: the constructor.                                     *)
(***************************************************************************)
NoUnit == [op |-> "none"]

Init ==
    /\ session = Null
    /\ audioBuffer = <<>>
    /\ lastResult = Null
    /\ smoothingFactor = defaultSmoothingFactor
    /\ pending = {}
    /\ done = <<>>
    /\ lastRun = Null
    /\ released = <<>>
    /\ env = [nextId |-> 1, nextSession |-> 1, now |-> 0, streamPos |-> 0,
              warmedUp |-> FALSE, windows |-> 0, origin |-> 0]
    /\ unit = NoUnit

\* the caller starts an operation
CanCall == env.nextId <= MaxCalls
Tick == [env EXCEPT !.nextId = @ + 1]

\* an operation completes: the history keeps the two completed last
Settle(rec) == done' = IF Len(done) < 2 THEN Append(done, rec) ELSE <<done[2], rec>>

\* session.run(feeds) is invoked
Invoke(call, feeds) == lastRun' = [call |-> call, session |-> session.id, feeds |-> feeds]

(***************************************************************************)
(* loadModel(modelFile, options).  The execution providers of the options   *)
(* and the field actualBackend, which nothing else reads, are left out.     *)
(***************************************************************************)
OpRecord(id, kind, outcome) == [call |-> id, kind |-> kind, outcome |-> outcome]

\* the call up to its first await
loadModel(kind) ==
    /\ CanCall
    /\ env' = Tick
    /\ IF kind = "other"
       THEN /\ Settle(OpRecord(env.nextId, "load", "badModel"))
            /\ pending' = pending
       ELSE /\ pending' = pending \cup
                  {[id |-> env.nextId, kind |-> "load",
                    stage |-> IF kind \in {"string", "Blob"} THEN "read" ELSE "create"]}
            /\ done' = done
    /\ UNCHANGED <<session, audioBuffer, lastResult, smoothingFactor,
                   lastRun, released, unit>>

\* the await of import('fs') / arrayBuffer() resumes: the bytes were read, or
\* reading threw
loadModelRead(c, ok) ==
    /\ c \in pending /\ c.kind = "load" /\ c.stage = "read"
    /\ IF ok
       THEN /\ pending' = (pending \ {c}) \cup {[c EXCEPT !.stage = "create"]}
            /\ done' = done
       ELSE /\ pending' = pending \ {c}
            /\ Settle(OpRecord(c.id, "load", "readFailed"))
    /\ UNCHANGED <<session, audioBuffer, lastResult, smoothingFactor,
                   lastRun, released, env, unit>>

\* InferenceSession.create resolves with a session: in the try block or in the
\* catch block's retry
loadModelCreated(c, cfg) ==
    /\ c \in pending /\ c.kind = "load" /\ c.stage \in {"create", "fallback"}
    /\ session' = [id |-> env.nextSession, inputNames |-> cfg.inputNames,
                   outputNames |-> cfg.outputNames]
    /\ env' = [env EXCEPT !.nextSession = @ + 1]
    /\ pending' = pending \ {c}
    /\ Settle(OpRecord(c.id, "load", "ok"))
    /\ UNCHANGED <<audioBuffer, lastResult, smoothingFactor, lastRun, released, unit>>

\* InferenceSession.create rejects: the catch block retries on the CPU, and the
\* retry's rejection is the rejection of loadModel
loadModelCreateFailed(c) ==
    /\ c \in pending /\ c.kind = "load" /\ c.stage \in {"create", "fallback"}
    /\ IF c.stage = "create"
       THEN /\ pending' = (pending \ {c}) \cup {[c EXCEPT !.stage = "fallback"]}
            /\ done' = done
       ELSE /\ pending' = pending \ {c}
            /\ Settle(OpRecord(c.id, "load", "createFailed"))
    /\ UNCHANGED <<session, audioBuffer, lastResult, smoothingFactor,
                   lastRun, released, env, unit>>

(***************************************************************************)
(* processAudioChunk(audioData)                                            *)
(***************************************************************************)
\* the entry of the history for a completed call: its outcome and returned value,
\* the number of session.run calls it made, the frame it decoded, and the buffer
\* and the held frame as they were when it was invoked
ChunkRecord(id, n, outcome, value, ran, decoded, before) ==
    [call |-> id, kind |-> "chunk", samples |-> n, outcome |-> outcome,
     value |-> value, ran |-> ran, decoded |-> decoded, before |-> before]

\* the buffer, the held frame and whether the buffer has ever filled a window, as
\* they are when a call is invoked
Before == [buffer |-> audioBuffer, last |-> lastResult, warm |-> env.warmedUp]

\* this.audioBuffer after the append of audioData
appendChunk(buffer, audioData) == Concat(buffer, audioData)

\* the window handed to inference and this.audioBuffer after the shift
\* (variant: the window is the newest L samples)
windowOfTail(buffer) == Slice(buffer, Length(buffer) - bufferLen, Length(buffer))
windowOf(buffer) == Slice(buffer, 0, bufferLen)
\* (variant: the shift drops a whole window instead of a hop)
shiftBufferByWindow(buffer) == Slice(buffer, bufferLen, Length(buffer))
shiftBuffer(buffer) == Slice(buffer, bufferOfs, Length(buffer))

\* the branch that returns without inference
\* (variant: the threshold is the hop instead of the window)
belowWindowHop(buffer) == Length(buffer) < bufferOfs
belowWindow(buffer) == Length(buffer) < bufferLen

\* the guard at the head of processAudioChunk throws before anything else happens
\* (variant: the incoming samples are appended before the guard throws)
rejectChunkAfterAppend(id, n) ==
    /\ Settle(ChunkRecord(id, n, "notReady", Null, 0, Null, Before))
    /\ env' = Tick
    /\ audioBuffer' = appendChunk(audioBuffer, Samples(env.streamPos, n))
    /\ UNCHANGED <<pending, lastRun>>
rejectChunk(id, n) ==
    /\ Settle(ChunkRecord(id, n, "notReady", Null, 0, Null, Before))
    /\ env' = Tick
    /\ UNCHANGED <<audioBuffer, pending, lastRun>>

\* the call up to its first await (or to its return), audioData being n new samples
processAudioChunk(n) ==
    /\ CanCall
    /\ LET id == env.nextId
           audioData == Samples(env.streamPos, n)
           newBuffer == appendChunk(audioBuffer, audioData)
       IN IF session = Null
          THEN rejectChunk(id, n)
          ELSE IF belowWindow(newBuffer)
          THEN /\ audioBuffer' = newBuffer
               /\ IF lastResult # Null
                  THEN /\ Settle(ChunkRecord(id, n, "ok", lastResult, 0, Null,
                                             Before))
                       /\ env' = [Tick EXCEPT !.streamPos = @ + n]
                  ELSE /\ Settle(ChunkRecord(id, n, "ok", getEmptyResult(env.now), 0, Null,
                                             Before))
                       /\ env' = [Tick EXCEPT !.streamPos = @ + n, !.now = @ + 1]
               /\ UNCHANGED <<pending, lastRun>>
          ELSE /\ audioBuffer' = shiftBuffer(newBuffer)
               /\ Invoke(id, runInferenceFeeds(session.inputNames, windowOf(newBuffer)))
               /\ pending' = pending \cup
                     {[id |-> id, kind |-> "chunk", samples |-> n, ran |-> session,
                       before |-> Before]}
               /\ env' = [Tick EXCEPT !.streamPos = @ + n, !.warmedUp = TRUE,
                                      !.windows = @ + 1]
               /\ done' = done
    /\ UNCHANGED <<session, lastResult, smoothingFactor, released, unit>>

\* session.run rejects: the rejection is the rejection of processAudioChunk
\* (variant: the rejection also clears the held frame)
processAudioChunkFailedClearsLast(c) ==
    /\ c \in pending /\ c.kind = "chunk"
    /\ pending' = pending \ {c}
    /\ lastResult' = Null
    /\ Settle(ChunkRecord(c.id, c.samples, "inferenceFailed", Null, 1, Null,
                          c.before))
    /\ UNCHANGED <<session, audioBuffer, smoothingFactor,
                   lastRun, released, env, unit>>
\* (variant: the rejection puts the buffer back as it was when the call started)
processAudioChunkFailedRestoresBuffer(c) ==
    /\ c \in pending /\ c.kind = "chunk"
    /\ pending' = pending \ {c}
    /\ audioBuffer' = c.before.buffer
    /\ Settle(ChunkRecord(c.id, c.samples, "inferenceFailed", Null, 1, Null,
                          c.before))
    /\ UNCHANGED <<session, lastResult, smoothingFactor,
                   lastRun, released, env, unit>>
processAudioChunkFailed(c) ==
    /\ c \in pending /\ c.kind = "chunk"
    /\ pending' = pending \ {c}
    /\ Settle(ChunkRecord(c.id, c.samples, "inferenceFailed", Null, 1, Null,
                          c.before))
    /\ UNCHANGED <<session, audioBuffer, lastResult, smoothingFactor,
                   lastRun, released, env, unit>>

\* the frame processAudioChunk returns and holds, given the decoded frame
\* (variant: the decoded frame is returned as it is)
smoothResultNever(parsed, last, factor) == parsed
smoothResult(parsed, last, factor) ==
    IF last # Null
    THEN [parsed EXCEPT !.blendshapes =
            smoothBlendshapes(Array(last.blendshapes), Array(parsed.blendshapes),
                              factor).items]
    ELSE parsed

\* session.run resolves with the raw output data: parseOutputs, the smoothing
\* against the held frame, and the return
processAudioChunkResumed(c, data) ==
    /\ c \in pending /\ c.kind = "chunk"
    /\ pending' = pending \ {c}
    /\ IF ~outputsReadable(c.ran)
       THEN /\ Settle(ChunkRecord(c.id, c.samples, "typeError", Null, 1, Null,
                                  c.before))
            /\ UNCHANGED <<lastResult, env>>
       ELSE LET parsed == parseOutputs(data, env.now)
                result == smoothResult(parsed, lastResult, smoothingFactor)
            IN /\ lastResult' = result
               /\ env' = [env EXCEPT !.now = @ + 1]
               /\ Settle(ChunkRecord(c.id, c.samples, "ok", result, 1, parsed,
                                     c.before))
    /\ UNCHANGED <<session, audioBuffer, smoothingFactor, lastRun,
                   released, unit>>

(***************************************************************************)
(* processAudioFile(audioBuffer)                                           *)
(***************************************************************************)
\* the entry of the history for a completed call; windows are the slices handed
\* to inference, in order
FileRecord(id, n, outcome, value, windows) ==
    [call |-> id, kind |-> "file", samples |-> n, outcome |-> outcome,
     value |-> value, ran |-> Len(windows), windows |-> windows]

\* the loop condition of processAudioFile
fileLoopContinues(i, n) == i < n - bufferLen

\* the return of processAudioFile once the loop has ended
fileReturn(c, results, now) ==
    LET agg == aggregateResults(results, now)
    IN FileRecord(c.id, c.samples, IF agg.ok THEN "ok" ELSE "typeError",
                  IF agg.ok THEN agg.value ELSE Null, c.windows)

\* the call up to its first await (or to its return)
processAudioFile(audio) ==
    /\ CanCall
    /\ LET id == env.nextId
           kind == audio.kind
           n == audio.n
           audioData == Samples(0, n)
           c == [id |-> id, kind |-> "file", samples |-> n, audioData |-> audioData,
                 i |-> 0, results |-> <<>>, windows |-> <<>>, ran |-> session]
       IN IF session = Null
          THEN /\ Settle(FileRecord(id, n, "notReady", Null, <<>>))
               /\ env' = Tick
               /\ UNCHANGED <<pending, lastRun>>
          ELSE IF kind = "other"
          THEN /\ Settle(FileRecord(id, n, "badAudio", Null, <<>>))
               /\ env' = Tick
               /\ UNCHANGED <<pending, lastRun>>
          ELSE IF fileLoopContinues(0, n)
          THEN LET chunk == Slice(audioData, 0, bufferLen)
               IN /\ Invoke(id, runInferenceFeeds(session.inputNames, chunk))
                  /\ pending' = pending \cup {[c EXCEPT !.windows = <<chunk>>]}
                  /\ env' = Tick
                  /\ done' = done
          ELSE /\ Settle(fileReturn(c, <<>>, env.now))
               /\ env' = [Tick EXCEPT !.now = @ + 1]
               /\ UNCHANGED <<pending, lastRun>>
    /\ UNCHANGED <<session, audioBuffer, lastResult, smoothingFactor, released, unit>>

\* session.run rejects: the rejection is the rejection of processAudioFile
processAudioFileFailed(c) ==
    /\ c \in pending /\ c.kind = "file"
    /\ pending' = pending \ {c}
    /\ Settle(FileRecord(c.id, c.samples, "inferenceFailed", Null, c.windows))
    /\ UNCHANGED <<session, audioBuffer, lastResult, smoothingFactor,
                   lastRun, released, env, unit>>

\* session.run resolves with the raw output data: parseOutputs, push, and the
\* next turn of the loop (the next runInference) or the aggregation and return
processAudioFileResumed(c, data) ==
    /\ c \in pending /\ c.kind = "file"
    /\ IF ~outputsReadable(c.ran)
       THEN /\ pending' = pending \ {c}
            /\ Settle(FileRecord(c.id, c.samples, "typeError", Null, c.windows))
            /\ UNCHANGED <<env, lastRun>>
       ELSE LET results == Append(c.results, parseOutputs(data, env.now))
                i == c.i + bufferOfs
                chunk == Slice(c.audioData, i, i + bufferLen)
            IN /\ env' = [env EXCEPT !.now = @ + 1]
               /\ IF ~fileLoopContinues(i, c.samples)
                  THEN /\ pending' = pending \ {c}
                       /\ Settle(fileReturn(c, results, env.now + 1))
                       /\ UNCHANGED lastRun
                  ELSE IF session = Null
                  THEN /\ pending' = pending \ {c}
                       /\ Settle(FileRecord(c.id, c.samples, "notReady", Null, c.windows))
                       /\ UNCHANGED lastRun
                  ELSE /\ Invoke(c.id, runInferenceFeeds(session.inputNames, chunk))
                       /\ pending' = (pending \ {c}) \cup
                             {[c EXCEPT !.i = i, !.results = results, !.ran = session,
                                        !.windows = Append(@, chunk)]}
                       /\ done' = done
    /\ UNCHANGED <<session, audioBuffer, lastResult, smoothingFactor,
                   released, unit>>

(***************************************************************************)
(* setSmoothing(factor) and dispose()                                      *)
(***************************************************************************)
setSmoothing(factor) ==
    /\ CanCall
    /\ smoothingFactor' = MathMax(Zero, MathMin(One, factor))
    /\ env' = Tick
    /\ Settle(OpRecord(env.nextId, "setSmoothing", "ok"))
    /\ UNCHANGED <<session, audioBuffer, lastResult, pending,
                   lastRun, released, unit>>

\* (variant: dispose leaves the held frame in place)
disposeKeepsLastResult ==
    /\ CanCall
    /\ IF session # Null
       THEN /\ released' = Append(released, session.id)
            /\ session' = Null
       ELSE UNCHANGED <<released, session>>
    /\ audioBuffer' = <<>>
    /\ env' = [Tick EXCEPT !.warmedUp = FALSE, !.windows = 0, !.origin = env.streamPos]
    /\ Settle(OpRecord(env.nextId, "dispose", "ok"))
    /\ UNCHANGED <<lastResult, smoothingFactor, pending, lastRun, unit>>
dispose ==
    /\ CanCall
    /\ IF session # Null
       THEN /\ released' = Append(released, session.id)
            /\ session' = Null
       ELSE UNCHANGED <<released, session>>
    /\ audioBuffer' = <<>>
    /\ lastResult' = Null
    /\ env' = [Tick EXCEPT !.warmedUp = FALSE, !.windows = 0, !.origin = env.streamPos]
    /\ Settle(OpRecord(env.nextId, "dispose", "ok"))
    /\ UNCHANGED <<smoothingFactor, pending, lastRun, unit>>

(***************************************************************************)
(* The serialized use of the pipeline (spec section 5: one producer; the    *)
(* caller awaits each call before it starts the next operation).            *)
(***************************************************************************)
Idle == pending = {}

Next ==
    \/ \E kind \in ModelFileKinds : Idle /\ loadModel(kind)
    \/ \E c \in pending, ok \in BOOLEAN : loadModelRead(c, ok)
    \/ \E c \in pending, cfg \in SessionConfigs : loadModelCreated(c, cfg)
    \/ \E c \in pending : loadModelCreateFailed(c)
    \/ \E n \in ChunkSizes : Idle /\ processAudioChunk(n)
    \/ \E c \in pending : processAudioChunkFailed(c)
    \/ \E c \in pending, data \in RawOutputs : processAudioChunkResumed(c, data)
    \/ \E audio \in AudioInputs : Idle /\ processAudioFile(audio)
    \/ \E c \in pending : processAudioFileFailed(c)
    \/ \E c \in pending, data \in RawOutputs : processAudioFileResumed(c, data)
    \/ \E factor \in FactorArgs : Idle /\ setSmoothing(factor)
    \/ Idle /\ dispose

Spec == Init /\ [][Next]_vars

(***************************************************************************)
(* Overlapping use: the caller starts processAudioChunk and dispose without *)
(* awaiting the calls in flight.  A step is still the synchronous run of a   *)
(* call up to its await, or its continuation: JavaScript runs one of them at *)
(* a time.                                                                  *)
(***************************************************************************)
NextOverlap ==
    \/ \E kind \in ModelFileKinds : Idle /\ loadModel(kind)
    \/ \E c \in pending, ok \in BOOLEAN : loadModelRead(c, ok)
    \/ \E c \in pending, cfg \in SessionConfigs : loadModelCreated(c, cfg)
    \/ \E c \in pending : loadModelCreateFailed(c)
    \/ \E n \in ChunkSizes : processAudioChunk(n)
    \/ \E c \in pending : processAudioChunkFailed(c)
    \/ \E c \in pending, data \in RawOutputs : processAudioChunkResumed(c, data)
    \/ dispose

SpecOverlap == Init /\ [][NextOverlap]_vars

(***************************************************************************)
(* The pure functions applied to drawn inputs: frames whose blendshape      *)
(* lists have any cardinality up to MaxUnitCard.                            *)
(***************************************************************************)
UnitValues == {Zero, One}

UnitLists ==
    UNION { { [j \in 1..card |-> [name |-> blendshapeNames[j], value |-> v[j]]] :
                v \in [1..card -> UnitValues] } : card \in 0..MaxUnitCard }

UnitEyes == [leftX |-> One, leftY |-> Zero, rightX |-> Int2Num(-3), rightY |-> Zero]

UnitFrames ==
    { [blendshapes |-> b, jaw |-> Zero, eyes |-> Null, timestamp |-> 0] : b \in UnitLists }
    \cup { [blendshapes |-> b, jaw |-> One, eyes |-> UnitEyes, timestamp |-> 1] : b \in UnitLists }

UnitFrameSeqs == UNION { [1..len -> UnitFrames] : len \in 0..MaxUnitFrames }

\* raw model outputs: the full layout, and every kind of short output (none of
\* the skin block, part of it, all of it but no jaw, the jaw but no eyes, part of
\* the eyes)
UnitRawLens ==
    {0, skinSize \div 5, jawOffset, eyesOffset, eyesOffset + 2, RawLayoutLen}

UnitRawOutputs ==
    { RawOf(len, a, b) : len \in UnitRawLens,
                         a \in {Int2Num(10)}, b \in {Int2Num(0), Int2Num(8000)} }

\* the input names a session advertises
UnitInputNames ==
    { <<"audio">>, <<"audio", "emotion">>, <<"emotion", "audio">>, <<"input">>,
      <<"x", "input", "audio">>, <<"wav">>, <<"wav", "emotion">>, <<"emotion", "wav">>,
      <<"emotion">> }

\* sample sequences and rates handed to resampleAudio
UnitSampleValues == {Zero, One, Infinity}
UnitSampleSeqs == UNION { [1..len -> UnitSampleValues] : len \in 0..MaxUnitSamples }
UnitRates == { <<1, 1>>, <<16000, 16000>>, <<44100, 44100>>, <<8000, 16000>>, <<16000, 8000>> }

UnitInputs ==
    { [op |-> "smooth", prev |-> prev, curr |-> Array(curr), factor |-> factor,
       applied |-> FALSE, out |-> Null] :
        prev \in {Array(b) : b \in UnitLists} \cup {Null}, curr \in UnitLists,
        factor \in {defaultSmoothingFactor, Zero, One} }
    \cup { [op |-> "aggregate", frames |-> frames, applied |-> FALSE, out |-> Null] :
             frames \in UnitFrameSeqs }
    \cup { [op |-> "parse", data |-> data, applied |-> FALSE, out |-> Null] :
             data \in UnitRawOutputs }
    \cup { [op |-> "resample", audioData |-> x, fromRate |-> r[1], toRate |-> r[2],
             applied |-> FALSE, out |-> Null] : x \in UnitSampleSeqs, r \in UnitRates }
    \cup { [op |-> "feeds", inputNames |-> names, audioChunk |-> Samples(0, bufferLen),
             applied |-> FALSE, out |-> Null] : names \in UnitInputNames }

InitUnit ==
    /\ session = Null
    /\ audioBuffer = <<>>
    /\ lastResult = Null
    /\ smoothingFactor = defaultSmoothingFactor
    /\ pending = {}
    /\ done = <<>>
    /\ lastRun = Null
    /\ released = <<>>
    /\ env = [nextId |-> 1, nextSession |-> 1, now |-> 0, streamPos |-> 0,
              warmedUp |-> FALSE, windows |-> 0, origin |-> 0]
    /\ unit \in UnitInputs

unitSmooth ==
    /\ unit.op = "smooth" /\ ~unit.applied
    /\ unit' = [unit EXCEPT !.applied = TRUE,
                            !.out = smoothBlendshapes(unit.prev, unit.curr, unit.factor)]
    /\ UNCHANGED <<session, audioBuffer, lastResult, smoothingFactor, pending, done,
                   lastRun, released, env>>

unitAggregate ==
    /\ unit.op = "aggregate" /\ ~unit.applied
    /\ unit' = [unit EXCEPT !.applied = TRUE, !.out = aggregateResults(unit.frames, 0)]
    /\ UNCHANGED <<session, audioBuffer, lastResult, smoothingFactor, pending, done,
                   lastRun, released, env>>

unitParse ==
    /\ unit.op = "parse" /\ ~unit.applied
    /\ unit' = [unit EXCEPT !.applied = TRUE, !.out = parseOutputs(unit.data, 0)]
    /\ UNCHANGED <<session, audioBuffer, lastResult, smoothingFactor, pending, done,
                   lastRun, released, env>>

unitFeeds ==
    /\ unit.op = "feeds" /\ ~unit.applied
    /\ unit' = [unit EXCEPT !.applied = TRUE,
                            !.out = runInferenceFeeds(unit.inputNames, unit.audioChunk)]
    /\ UNCHANGED <<session, audioBuffer, lastResult, smoothingFactor, pending, done,
                   lastRun, released, env>>

unitResample ==
    /\ unit.op = "resample" /\ ~unit.applied
    /\ unit' = [unit EXCEPT !.applied = TRUE,
                            !.out = resampleAudio(unit.audioData, unit.fromRate, unit.toRate)]
    /\ UNCHANGED <<session, audioBuffer, lastResult, smoothingFactor, pending, done,
                   lastRun, released, env>>

NextUnit == unitSmooth \/ unitAggregate \/ unitParse \/ unitFeeds \/ unitResample

SpecUnit == InitUnit /\ [][NextUnit]_vars

(***************************************************************************)
(* The claims.                                                             *)
(***************************************************************************)
Last(s) == s[Len(s)]
Records(kinds) == {j \in 1..Len(done) : done[j].kind \in kinds}
\* the operation completed last is the latest the caller started, and none is pending
JustCompleted(r) == Idle /\ done # <<>> /\ r = Last(done)

\* C1 (as stated): processFile on n samples runs inference on exactly the windows
\* [start, start+L) for start = 0, H, 2H, ... while start + L <= n: floor((n-L)/H)+1
\* windows when n >= L, none when n < L, and the aggregate counts those windows.
ClaimedWindows(n) ==
    IF n >= bufferLen
    THEN [w \in 1..((n - bufferLen) \div bufferOfs + 1) |-> Samples((w - 1) * bufferOfs, bufferLen)]
    ELSE <<>>

C1_BatchWindowing ==
    \A j \in Records({"file"}) :
        done[j].outcome = "ok" =>
            /\ done[j].windows = ClaimedWindows(done[j].samples)
            /\ Len(done[j].windows) > 0 => done[j].value.frameCount = Len(done[j].windows)

\* C2 (as stated): when the inference call of a processChunk invocation fails, the
\* sample buffer is exactly as it was before that invocation.
C2_BufferRestoredOnFailure ==
    \A j \in Records({"chunk"}) :
        (JustCompleted(done[j]) /\ done[j].outcome = "inferenceFailed")
            => audioBuffer = done[j].before.buffer

\* C3: when the inference call of a processChunk invocation fails, the held last
\* frame is the one held before the invocation (or still absent); and the held
\* frame is replaced only by a call whose inference result was decoded, by the
\* frame that call returns, or cleared by dispose.
ChunkSettles(outcome) ==
    /\ done' # done
    /\ Last(done').kind = "chunk"
    /\ Last(done').outcome = outcome

C3_LastFrameOnFailure ==
    [][ /\ ChunkSettles("inferenceFailed") =>
              /\ lastResult' = lastResult
              /\ lastResult' = Last(done').before.last
        /\ lastResult' # lastResult =>
              \/ ChunkSettles("ok") /\ Last(done').decoded # Null
                                    /\ lastResult' = Last(done').value
              \/ done' # done /\ Last(done').kind = "dispose" /\ lastResult' = Null
      ]_vars

C3_Witness ==
    /\ done # <<>>
    /\ JustCompleted(Last(done))
    /\ Last(done).kind = "chunk"
    /\ Last(done).outcome = "inferenceFailed"
    /\ Last(done).before.last # Null
    /\ lastResult = Last(done).before.last

\* C4 (as stated): right after a processChunk call consumed a window, the buffer
\* holds fewer than L samples, and never a negative number.
C4_BufferBelowWindowAfterShift ==
    \A c \in pending :
        c.kind = "chunk" => Length(audioBuffer) >= 0 /\ Length(audioBuffer) < bufferLen

\* C5: a processChunk call that leaves fewer than L samples in the buffer after
\* its append invokes no inference and returns the held last frame, or, none
\* being held, the all-zero result: every canonical name with value 0, jaw 0,
\* eyes absent.
IsEmptyResult(f) ==
    /\ Len(f.blendshapes) = Len(generateBlendshapeNames)
    /\ \A j \in 1..Len(f.blendshapes) :
          f.blendshapes[j] = [name |-> generateBlendshapeNames[j], value |-> Zero]
    /\ f.jaw = Zero
    /\ f.eyes = Null

WarmUpCall(r) ==
    /\ r.kind = "chunk"
    /\ r.outcome # "notReady"
    /\ Length(r.before.buffer) + r.samples < bufferLen

C5_WarmUp ==
    /\ \A j \in Records({"chunk"}) :
          WarmUpCall(done[j]) =>
              /\ done[j].ran = 0
              /\ done[j].outcome = "ok"
              /\ IF done[j].before.last # Null
                 THEN done[j].value = done[j].before.last
                 ELSE IsEmptyResult(done[j].value)
    /\ \A c \in pending :
          c.kind = "chunk" => Length(c.before.buffer) + c.samples >= bufferLen

C5_Witness ==
    \E j \in Records({"chunk"}) :
        /\ WarmUpCall(done[j])
        /\ done[j].before.last # Null
        /\ done[j].value = done[j].before.last
        /\ ~IsEmptyResult(done[j].value)

\* Two consecutive processChunk calls, the first on a fresh pipeline, whose samples
\* together fill at least a window
FreshPair ==
    /\ Len(done) = 2
    /\ done[1].kind = "chunk" /\ done[2].kind = "chunk"
    /\ done[2].call = done[1].call + 1
    /\ done[1].before = [buffer |-> <<>>, last |-> Null, warm |-> FALSE]
    /\ done[1].outcome = "ok" /\ done[2].outcome = "ok"
    /\ done[1].samples + done[2].samples >= bufferLen

\* alpha * first + (1 - alpha) * second, name by name
Blend(first, second, alpha) ==
    [j \in 1..Len(second) |->
        [name |-> second[j].name,
         value |-> Add(Mul(first[j].value, alpha), Mul(second[j].value, Sub(One, alpha)))]]

\* C6 (as stated): on a fresh pipeline, when two consecutive processChunk calls
\* together fill at least L samples, the second call's frame is the blend of two
\* inference outputs, one per call, with the configured smoothing factor.
C6_SecondIsBlendOfTwoOutputs ==
    FreshPair =>
        /\ done[1].decoded # Null
        /\ done[2].decoded # Null
        /\ done[2].value.blendshapes =
              Blend(done[1].decoded.blendshapes, done[2].decoded.blendshapes,
                    smoothingFactor)

\* C6 (amended): for such a pair of calls, when both calls run inference the
\* second frame's blendshapes are alpha * first + (1 - alpha) * second and its
\* jaw, eyes and timestamp are the second output's; when only the second call
\* runs inference it returns that output unsmoothed; when only the first runs
\* inference the second call returns the first call's frame.
C6_SecondFrameOfFreshPair ==
    FreshPair =>
        /\ done[1].ran = 1 \/ done[2].ran = 1
        /\ (done[1].ran = 1 /\ done[2].ran = 1) =>
              /\ done[1].value = done[1].decoded
              /\ done[2].value.blendshapes =
                    Blend(done[1].decoded.blendshapes, done[2].decoded.blendshapes,
                          smoothingFactor)
              /\ done[2].value.jaw = done[2].decoded.jaw
              /\ done[2].value.eyes = done[2].decoded.eyes
              /\ done[2].value.timestamp = done[2].decoded.timestamp
        /\ (done[1].ran = 0 /\ done[2].ran = 1) => done[2].value = done[2].decoded
        /\ (done[1].ran = 1 /\ done[2].ran = 0) => done[2].value = done[1].value

C6_Witness ==
    /\ FreshPair
    /\ done[1].ran = 1 /\ done[2].ran = 1
    /\ done[1].decoded.blendshapes # done[2].decoded.blendshapes
    /\ done[2].value.blendshapes # done[2].decoded.blendshapes
    /\ done[2].value.blendshapes # done[1].decoded.blendshapes

\* a processChunk call that passed the not-ready guard
StreamingCall(r) == r.kind = "chunk" /\ r.outcome # "notReady"

\* C7 (as stated): once the buffer has reached L samples at least once, every
\* later processChunk call performs exactly one inference call, whatever the
\* size of its chunk, and no call performs more than one.
C7_ExactlyOneOnceWarmedUp ==
    \A j \in Records({"chunk"}) :
        /\ done[j].ran <= 1
        /\ (StreamingCall(done[j]) /\ done[j].before.warm) => done[j].ran = 1

\* C7 (amended): a processChunk call performs at most one inference call, and
\* exactly one when and only when the buffer holds at least L samples after its
\* append; once the buffer has reached L samples, every later call whose chunk has
\* at least H samples performs exactly one.
C7_OneInferenceWhenWindowFilled ==
    /\ \A j \in Records({"chunk"}) :
          /\ done[j].ran <= 1
          /\ StreamingCall(done[j]) =>
                (done[j].ran = 1 <=>
                    Length(done[j].before.buffer) + done[j].samples >= bufferLen)
          /\ (StreamingCall(done[j]) /\ done[j].before.warm
                 /\ done[j].samples >= bufferOfs) => done[j].ran = 1
    /\ \A c \in pending :
          c.kind = "chunk" => lastRun.call = c.id

C7_Witness ==
    \E j \in Records({"chunk"}) :
        /\ StreamingCall(done[j])
        /\ done[j].before.warm
        /\ done[j].samples = bufferOfs
        /\ Length(done[j].before.buffer) < bufferLen
        /\ done[j].ran = 1

\* a processChunk or processFile call is started
CallStarts ==
    /\ env'.nextId = env.nextId + 1
    /\ \/ done' # done /\ Last(done').call = env.nextId
                        /\ Last(done').kind \in {"chunk", "file"}
       \/ \E c \in pending' \ pending : c.id = env.nextId /\ c.kind \in {"chunk", "file"}

\* C8: while no session is attached (before loadModel, or after dispose), a
\* processChunk or processFile call fails with the not-ready error, and the sample
\* buffer, the held frame and the record of inference invocations are as before:
\* nothing was appended, nothing replaced, no inference invoked.
C8_NotReadyFailFast ==
    [][ (session = Null /\ CallStarts) =>
            /\ done' # done
            /\ Last(done').call = env.nextId
            /\ Last(done').outcome = "notReady"
            /\ Last(done').ran = 0
            /\ audioBuffer' = audioBuffer
            /\ lastResult' = lastResult
            /\ lastRun' = lastRun
            /\ pending' = pending
      ]_vars

C8_Witness ==
    /\ session = Null
    /\ released # <<>>
    /\ Len(done) = 2
    /\ done[1].kind = "dispose"
    /\ done[2].kind \in {"chunk", "file"}
    /\ done[2].outcome = "notReady"
    /\ done[2].samples > 0
    /\ audioBuffer = <<>>

\* a dispose call completes
DisposeStep == done' # done /\ Last(done').kind = "dispose"
NoDuplicates(s) == \A i, j \in 1..Len(s) : s[i] = s[j] => i = j

\* C9: dispose releases the attached session, if there is one, exactly once and
\* never a session released before; it leaves no session, an empty buffer and
\* no held frame, from any state; nothing else releases a session; and a dispose
\* right after a dispose succeeds, releases nothing and changes nothing.
C9_DisposeIdempotent ==
    [][ /\ DisposeStep =>
              /\ Last(done').outcome = "ok"
              /\ session' = Null
              /\ audioBuffer' = <<>>
              /\ lastResult' = Null
              /\ released' = IF session # Null THEN Append(released, session.id)
                                               ELSE released
              /\ NoDuplicates(released')
              /\ (done # <<>> /\ Last(done).kind = "dispose") =>
                    /\ released' = released
                    /\ <<session, audioBuffer, lastResult, smoothingFactor, pending,
                         lastRun>>' =
                       <<session, audioBuffer, lastResult, smoothingFactor, pending,
                         lastRun>>
        /\ released' # released => DisposeStep
      ]_vars

C9_Witness ==
    /\ Len(done) = 2
    /\ done[1].kind = "dispose" /\ done[2].kind = "dispose"
    /\ done[2].call = done[1].call + 1
    /\ Len(released) = 1
    /\ session = Null /\ audioBuffer = <<>> /\ lastResult = Null

\* the frames handed to the unit operation differ in blendshape cardinality
SmoothMismatch ==
    /\ unit.op = "smooth"
    /\ unit.prev # Null
    /\ Len(unit.prev.items) # Len(unit.curr.items)

AggregateMismatch ==
    /\ unit.op = "aggregate"
    /\ \E i, j \in 1..Len(unit.frames) :
          Len(unit.frames[i].blendshapes) # Len(unit.frames[j].blendshapes)

\* C10 (as stated): given frames whose blendshape lists differ in cardinality,
\* smoothing returns the newer list unchanged and aggregation does not throw.
C10_ShapeMismatchRecovered ==
    (unit # NoUnit /\ unit.applied) =>
        /\ SmoothMismatch => unit.out = unit.curr
        /\ AggregateMismatch => unit.out.ok

\* the frames and aggregates returned by processAudioChunk and processAudioFile
ReturnedFrames ==
    {done[j].value : j \in {i \in Records({"chunk", "file"}) : done[i].outcome = "ok"}}

\* C11 (as stated): in every frame or aggregate returned by processChunk or
\* processFile, for any raw model output, short ones included, every blendshape
\* value and the jaw value lie in [0, 1].
C11_OutputsWithinUnitInterval ==
    \A f \in ReturnedFrames :
        /\ \A j \in 1..Len(f.blendshapes) : In01(f.blendshapes[j].value)
        /\ In01(f.jaw)

\* the raw value the decoder is to use at a position: the element, or 0 where the
\* output has none
RawOrZero(data, i) == IF i < Len(data) THEN data[i + 1] ELSE Zero

\* C12 (as stated): decoding a raw output shorter than the layout never fails
\* and treats every missing position as raw 0: a blendshape whose position is
\* out of range has value clamp01(sigmoid(0)) = 0.5, the jaw is decoded from raw 0
\* when raw[jawOffset] is absent, and each missing eye value is 0.
C12_ShortOutputDecodedAsZero ==
    (unit # NoUnit /\ unit.op = "parse" /\ unit.applied) =>
        /\ \A j \in 1..Len(unit.out.blendshapes) :
              skinOffset + (j - 1) >= Len(unit.data) =>
                  unit.out.blendshapes[j].value = Half
        /\ jawOffset >= Len(unit.data) => unit.out.jaw = Half
        /\ \A k \in 0..(eyesSize - 1) :
              eyesOffset + k >= Len(unit.data) =>
                  <<unit.out.eyes.leftX, unit.out.eyes.leftY,
                    unit.out.eyes.rightX, unit.out.eyes.rightY>>[k + 1] = Zero

\* the sum of a list of numbers, and m being their arithmetic mean
RECURSIVE Total(_)
Total(values) == IF values = <<>> THEN Zero ELSE Add(Head(values), Total(Tail(values)))
IsMeanOf(m, values) == Mul(Int2Num(Len(values)), m) = Total(values)

\* aggregateResults was applied to a non-empty sequence of frames of one cardinality
AggregatedFrames ==
    /\ unit # NoUnit /\ unit.op = "aggregate" /\ unit.applied
    /\ Len(unit.frames) > 0
    /\ ~AggregateMismatch

\* C13: aggregating a non-empty sequence of frames (of one blendshape
\* cardinality) returns, per blendshape index, the first frame's name with the
\* arithmetic mean of the values at that index; the mean of the jaws; the eyes of
\* the last frame; and frameCount = number of frames.  Aggregating one frame
\* returns that frame's blendshapes, jaw and eyes with frameCount 1.
C13_AggregateIsMean ==
    AggregatedFrames =>
        LET frames == unit.frames
            n == Len(frames)
            agg == unit.out.value
        IN /\ unit.out.ok
           /\ agg.frameCount = n
           /\ Len(agg.blendshapes) = Len(frames[1].blendshapes)
           /\ \A j \in 1..Len(agg.blendshapes) :
                 /\ agg.blendshapes[j].name = frames[1].blendshapes[j].name
                 /\ IsMeanOf(agg.blendshapes[j].value,
                             [r \in 1..n |-> frames[r].blendshapes[j].value])
           /\ IsMeanOf(agg.jaw, [r \in 1..n |-> frames[r].jaw])
           /\ agg.eyes = frames[n].eyes
           /\ n = 1 => /\ agg.blendshapes = frames[1].blendshapes
                       /\ agg.jaw = frames[1].jaw
                       /\ agg.eyes = frames[1].eyes

C13_Witness ==
    /\ AggregatedFrames
    /\ Len(unit.frames) = 2
    /\ Len(unit.frames[1].blendshapes) > 0
    /\ unit.frames[1].blendshapes[1].value # unit.frames[2].blendshapes[1].value
    /\ unit.frames[1].eyes # unit.frames[2].eyes
    /\ unit.out.ok
    /\ unit.out.value.blendshapes[1].value = Half
    /\ unit.out.value.eyes = unit.frames[2].eyes

\* the names of a blendshape list, in order
NamesOf(blendshapes) == [j \in 1..Len(blendshapes) |-> blendshapes[j].name]

\* every frame the pipeline returns, decodes or holds
PipelineFrames ==
    ReturnedFrames
    \cup {done[j].decoded : j \in {i \in Records({"chunk"}) : done[i].decoded # Null}}
    \cup (IF lastResult # Null THEN {lastResult} ELSE {})

\* C14 (as stated): every frame or aggregate returned by processChunk or
\* processFile has the cardinality of the canonical name table, which has 50
\* entries, with the names in table order.
C14_FiftyCanonicalNames ==
    \A f \in PipelineFrames :
        Len(f.blendshapes) = 50 /\ NamesOf(f.blendshapes) = generateBlendshapeNames

\* C14 (amended): the canonical name table has 52 entries, and every frame or
\* aggregate returned by processChunk or processFile (decoded, smoothed,
\* aggregated or the all-zero result) has those 52 names in table order; so the
\* held frame and a newly decoded frame never differ in length.
C14_FixedFrameShape ==
    /\ Len(generateBlendshapeNames) = 52
    /\ \A f \in PipelineFrames :
          Len(f.blendshapes) = 52 /\ NamesOf(f.blendshapes) = generateBlendshapeNames
    /\ \A j \in Records({"chunk"}) :
          (done[j].decoded # Null /\ done[j].before.last # Null) =>
              Len(done[j].before.last.blendshapes) = Len(done[j].decoded.blendshapes)

\* a frame decoded from a short output was smoothed against a held frame
C14_Witness ==
    \E j \in Records({"chunk"}) :
        /\ done[j].outcome = "ok"
        /\ done[j].decoded # Null
        /\ done[j].before.last # Null
        /\ done[j].decoded.blendshapes[52].value = NaN
        /\ Len(done[j].value.blendshapes) = 52
        /\ done[j].value.blendshapes[52].name = "mouthStretchRight"

\* the name the audio tensor is to be fed under: "audio", else "input", else the
\* first advertised name
PreferredAudioName(names) ==
    IF \E j \in 1..Len(names) : names[j] = "audio" THEN "audio"
    ELSE IF \E j \in 1..Len(names) : names[j] = "input" THEN "input"
    ELSE names[1]

EmotionAdvertised(names) == \E j \in 1..Len(names) : names[j] = "emotion"

\* C15 (as stated): for every non-empty list of advertised input names the feed
\* holds the audio tensor, of shape [1,1,L], under the name chosen by priority and
\* under no other name, and holds an all-zero [1,1,26] tensor under "emotion" if
\* and only if "emotion" is advertised; the audio tensor is always in the feed.
C15_FeedSelection ==
    (unit # NoUnit /\ unit.op = "feeds" /\ unit.applied) =>
        LET names == unit.inputNames
            key == PreferredAudioName(names)
            feeds == unit.out
            audio == [data |-> unit.audioChunk, dims |-> <<1, 1, bufferLen>>]
        IN /\ key \in DOMAIN feeds
           /\ feeds[key] = audio
           /\ \A nm \in DOMAIN feeds : feeds[nm] = audio => nm = key
           /\ \E nm \in DOMAIN feeds : feeds[nm] = audio
           /\ EmotionAdvertised(names) <=>
                 /\ "emotion" \in DOMAIN feeds
                 /\ feeds["emotion"] = [data |-> [j \in 1..26 |-> 0], dims |-> <<1, 1, 26>>]
           /\ DOMAIN feeds \subseteq {key, "emotion"}

\* C16 (as stated): the smoothing factor is within [0, 1] at all times, whatever
\* numbers setSmoothingFactor was called with.
C16_FactorWithinUnitInterval == In01(smoothingFactor)

\* resampleAudio was applied with equal rates
ResampledAtSameRate ==
    /\ unit # NoUnit /\ unit.op = "resample" /\ unit.applied
    /\ unit.fromRate = unit.toRate

\* C17 (as stated): for any sample sequence x, empty and single-sample ones
\* included, and any positive rate r, resample(x, r, r) has the length of x and
\* every element equal to the corresponding element of x.
C17_ResampleIdentity ==
    ResampledAtSameRate =>
        /\ Len(unit.out) = Len(unit.audioData)
        /\ \A j \in 1..Len(unit.audioData) : unit.out[j] = unit.audioData[j]

\* C17 (amended): resample(x, r, r) has the length of x, and every element
\* whose successor in x is finite, and the last element, equals the corresponding
\* element of x: the result is x for every sequence of finite samples, empty and
\* single-sample ones included.
C17_ResampleIdentityFinite ==
    ResampledAtSameRate =>
        /\ Len(unit.out) = Len(unit.audioData)
        /\ \A j \in 1..Len(unit.audioData) :
              (j = Len(unit.audioData) \/ IsNum(unit.audioData[j + 1]))
                  => unit.out[j] = unit.audioData[j]
        /\ (\A j \in 1..Len(unit.audioData) : IsNum(unit.audioData[j]))
              => unit.out = unit.audioData

C17_Witness ==
    /\ ResampledAtSameRate
    /\ Len(unit.audioData) = 3
    /\ \A j \in 1..3 : IsNum(unit.audioData[j])
    /\ unit.audioData[1] # unit.audioData[2]
    /\ unit.audioData[2] # unit.audioData[3]
    /\ unit.out = unit.audioData

\* a processChunk call hands a window to inference in this step
ChunkWindowStep == \E c \in pending' \ pending : c.kind = "chunk"

\* the window handed over in this step is the slice [k*H, k*H + L) of the stream
\* appended since the buffer was last reset, k being the number of windows handed
\* over before it
WindowAligned ==
    /\ lastRun' # lastRun
    /\ lastRun'.feeds[audioFeedName(session.inputNames)].data =
          Samples(env.origin + env.windows * bufferOfs, bufferLen)
    /\ env'.windows = env.windows + 1

\* the buffer holds exactly the samples appended since it was last reset, less
\* one hop per window handed over
BufferIsStreamTail ==
    audioBuffer = Samples(env.origin + env.windows * bufferOfs,
                          env.streamPos - (env.origin + env.windows * bufferOfs))

\* C18: under serialized processChunk calls the k-th window handed to inference
\* is the slice [k*H, k*H + L) of the concatenation of the chunks, whatever the
\* chunk sizes; consuming a window drops exactly the first H samples of the
\* buffer and keeps at least L - H; and the buffer is at all times the stream less
\* the dropped hops, so that no sample is lost or duplicated.
C18_WindowAlignment ==
    [][ /\ ChunkWindowStep =>
              /\ WindowAligned
              /\ audioBuffer' =
                    Drop(Concat(audioBuffer,
                                Samples(env.streamPos, env'.streamPos - env.streamPos)),
                         bufferOfs)
              /\ Length(audioBuffer') >= bufferLen - bufferOfs
        /\ BufferIsStreamTail'
      ]_vars

\* the second window of a stream that was split into unequal chunks
C18_Witness ==
    /\ env.windows = 2
    /\ Len(done) = 2
    /\ done[2].kind = "chunk" /\ done[2].ran = 1
    /\ done[1].kind = "chunk" /\ done[1].ran = 1
    /\ done[1].samples # done[2].samples
    /\ lastRun.call = done[2].call
    /\ lastRun.feeds["audio"].data = Samples(bufferOfs, bufferLen)

\* a processChunk call that ran inference returns a frame in this step
InferenceReturns == ChunkSettles("ok") /\ Last(done').ran = 1

ChunkCompletes ==
    \E c \in pending \ pending' :
        /\ c.kind = "chunk"
        /\ done' # done
        /\ Last(done').call = c.id

\* C20: when processChunk calls overlap, the append, the slice and the shift of a
\* call still happen in the one step that ends at its first await: the windows
\* handed to inference are the slices [k*H, k*H + L) of the concatenated stream in
\* the order the calls start, the buffer is at all times the stream less the
\* dropped hops, and the completion of an inference call, in whatever order,
\* touches neither the buffer nor the windows.
C20_AtomicWindowingUnderOverlap ==
    [][ /\ ChunkWindowStep => WindowAligned
        /\ BufferIsStreamTail'
        /\ ChunkCompletes =>
              /\ audioBuffer' = audioBuffer
              /\ lastRun' = lastRun
              /\ env'.windows = env.windows /\ env'.streamPos = env.streamPos
      ]_vars

\* two calls overlapped, each was handed its window, and the one started later
\* completed first
C20_Witness ==
    /\ env.windows = 2
    /\ done # <<>>
    /\ Last(done).kind = "chunk" /\ Last(done).ran = 1
    /\ \E c \in pending :
          /\ c.kind = "chunk"
          /\ c.id < Last(done).call
    /\ lastRun.call = Last(done).call
    /\ lastRun.feeds["audio"].data = Samples(bufferOfs, bufferLen)
    /\ BufferIsStreamTail

\* C21: a processChunk call whose inference completes when dispose has been
\* called during its suspension and no session is attached ends in failure: it
\* returns no frame and does not write the held frame, whether session.run
\* resolves or rejects.  While no session is attached, the buffer and the held
\* frame are empty: a processChunk call fills them only after a model was
\* attached again.
C21_DisposeDuringInference ==
    [][ /\ (ChunkCompletes /\ session = Null) =>
              /\ Last(done').outcome \in {"typeError", "inferenceFailed"}
              /\ Last(done').value = Null
              /\ lastResult' = lastResult
              /\ audioBuffer' = audioBuffer
        /\ session' = Null => (audioBuffer' = <<>> /\ lastResult' = Null)
      ]_vars

\* session.run resolved after a dispose called during the suspension of the call
C21_Witness ==
    /\ Len(done) = 2
    /\ done[1].kind = "dispose"
    /\ done[2].kind = "chunk"
    /\ done[2].call < done[1].call
    /\ done[2].outcome = "typeError"
    /\ done[2].ran = 1
    /\ session = Null /\ released # <<>>
    /\ audioBuffer = <<>> /\ lastResult = Null
====
